---- MODULE Spec2Model ----
(***************************************************************************)
(* Model of the presenter agent's ConcurrencyControlOrchestrator           *)
(* (modules/concurrency_control_orchestrator.py): the class variable       *)
(* _global_invocation_time, the instance variable _local_invocation_time,  *)
(* and the think-act loop of handle_text with its conflict checks.         *)
(*                                                                         *)
(* One handle_text call, A, is followed through all of its code.  The      *)
(* other handle_text calls of the process appear by the only thing they do *)
(* to the state A reads: line 379, _update_invocation_times, on A's        *)
(* orchestrator instance or on another one, before A begins or while A     *)
(* runs.  Of the instance variables only those of A's instance are kept:   *)
(* A reads no other instance's.                                            *)
(*                                                                         *)
(* The scheduling is asyncio's: a call runs without interruption from one  *)
(* await to the next, so every action of A is the code between two awaits  *)
(* (history read, llm.generate, execute_tool).                             *)
(*                                                                         *)
(* More specifications share the module.  SpecHints is the Hint History    *)
(* (_add_hint_to_history, _get_hint_usage_context) under the invocations   *)
(* of two orchestrator instances.  SpecNav is the presentation store       *)
(* (PresentationWebSocketManager) under the front-end's messages, with the *)
(* tools of PresentationToolProvider; the store's coroutines never suspend *)
(* before send_text, so each is one action.  SpecMerge is the merging of   *)
(* consecutive user turns, SpecContext the context assembly of handle_text *)
(* up to the first model call, for overlapping calls on one instance, and  *)
(* SpecEffects the invocation A with its tools acting on the store, the    *)
(* transport and the Hint History.  SpecChannel is websocket_endpoint      *)
(* (agent.py) serving connections that overlap, SpecTranscript the loading *)
(* of the transcription file, and SpecLive is A under weak fairness of its *)
(* steps when every call it awaits returns.                                *)
(***************************************************************************)
EXTENDS Integers, Sequences, FiniteSets, TLC

\* ---------------------------------------------------------------- bounds
MaxOtherStarts == 1      \* handle_text calls begun besides A
MaxTime == 2             \* largest wall-clock reading
MaxToolCalls == 2        \* tool calls in one model reply
MaxThoughtsBound == 2    \* largest configured max_thoughts
MaxHints == 5            \* hints added to the Hint History
HintCap == 3             \* hints kept in the history (the code keeps 50)
RecentHints == 2         \* hints listed in the prompt (the code lists 10)
MaxRoutes == 3           \* routes in a connection message
MaxTurns == 3            \* turns of a history that is merged
MaxCalls == 2            \* handle_text calls that assemble a context at once
MaxConnections == 2      \* front-end connections served by websocket_endpoint
MaxLines == 2            \* lines of a transcription file

\* where another handle_text call runs: on A's orchestrator instance or not
Instances == {"same", "other"}
\* names of tools the model may request
ToolNames == {"say", "hint"}
\* text of a model reply / of a say call
Texts == {"", "txt"}
\* how one execute_tool call ends
Outcomes == {"success", "failure", "raise"}

VARIABLES
  now,                      \* the reading time.time() returns
  global_invocation_time,   \* ConcurrencyControlOrchestrator._global_invocation_time
  local_invocation_time,    \* self._local_invocation_time of A's instance
  max_thoughts,             \* self.max_thoughts
  inv,                      \* A: its position in handle_text and its locals
  hist,                     \* A: what it has done so far
  otherStarts,              \* handle_text calls begun besides A
  laterStarted,             \* one of them began after A did
  responses,                \* the respond_text calls (caller, text) of A's latest step
  class_hint_usage_history, \* ConcurrencyControlOrchestrator._hint_usage_history
  instance_hint_usage_history, \* the attribute _hint_usage_history of each instance
  hints_added,              \* _add_hint_to_history calls so far
  hint_context,             \* the latest _get_hint_usage_context call
  routes,                   \* PresentationWebSocketManager.routes
  route_data,               \* PresentationWebSocketManager.route_data
  current_route,            \* PresentationWebSocketManager.current_route
  websocket,                \* PresentationWebSocketManager.websocket
  inbound,                  \* the handle_message call of the latest step
  call,                     \* the latest execute_tool call of the tool provider
  connections,              \* the front-end connections of websocket_endpoint
  instance,                 \* an orchestrator instance and its transcription
  contexts,                 \* its handle_text calls up to their first model call
  merge,                    \* the latest _concatenate_consecutive_user_messages call
  outbox                    \* the messages sent to the front-end so far

\* the orchestrator's invocation, the Hint History, the presentation store,
\* the context assembly and the tool effects
orchVars == <<now, global_invocation_time, local_invocation_time, max_thoughts,
              inv, hist, otherStarts, laterStarted, responses>>
hintVars == <<class_hint_usage_history, instance_hint_usage_history,
              hints_added, hint_context>>
storeVars == <<routes, route_data, current_route, websocket, inbound, call,
               connections>>
ctxVars == <<instance, contexts, merge, outbox>>

vars == <<now, global_invocation_time, local_invocation_time, max_thoughts,
          inv, hist, otherStarts, laterStarted, responses,
          class_hint_usage_history, instance_hint_usage_history,
          hints_added, hint_context,
          routes, route_data, current_route, websocket, inbound, call,
          connections,
          instance, contexts, merge, outbox>>

\* ------------------------------------------------------- the invocation
\* A before handle_text is called
NotStarted ==
  [pc |-> "idle", thoughts |-> 0,
   content |-> "",     \* llm_response.content of the latest reply
   tool_calls |-> 0,   \* len(llm_response.tool_calls) of the reply being executed
   idx |-> 0,          \* position of the tool call being executed
   functions |-> FALSE, \* options.functions of the latest model call is the tool list
   note |-> FALSE,     \* the "Tools Unavailable" note was appended before that call
   tool_results |-> <<>>, \* tool_results of the reply being executed
   turn |-> <<>>]      \* tool_results of the result turn appended since the latest reply

NoHistory ==
  [token |-> 0,              \* the reading taken at A's own start
   llmCalls |-> 0,           \* llm.generate calls issued
   toolRounds |-> 0,         \* replies whose tool calls were taken up
   emptyCalls |-> 0,         \* respond_text("") calls made by the loop (see Count)
   emptySent |-> 0,          \* those of them that did not raise
   missedConflict |-> FALSE, \* a check made after a later call began reported none
   loneConflict |-> FALSE,   \* a check reported a conflict though no later call had begun
   clearSeen |-> FALSE,      \* some check reported no conflict
   conflictSeen |-> FALSE,   \* some check reported a conflict
   staleToolStart |-> FALSE, \* a tool was started after a later call began
   ignoredToolCalls |-> FALSE, \* a reply's tool calls were not taken up
   resultTurns |-> 0,        \* tool-result turns appended to the conversation
   conflictToolStart |-> FALSE, \* a further tool of a reply was started while
                             \* _global_invocation_time > _local_invocation_time
   actedAfterConflict |-> FALSE] \* a model or tool call followed a reported conflict

\* the history counts 0, 1, and 2 for "twice or more"
Count(n) == IF n < 2 THEN n + 1 ELSE 2

Started == inv.pc # "idle"
Running == inv.pc \in {"context", "llm", "tool"}

\* ------------------------------------------------------ Generation Gate
\* time.time(): the wall clock advances between two readings, or not
Tick ==
  /\ now < MaxTime
  /\ now' = now + 1
  /\ UNCHANGED <<global_invocation_time, local_invocation_time, max_thoughts,
                 inv, hist, otherStarts, laterStarted, responses>>
  /\ UNCHANGED <<hintVars, storeVars, ctxVars>>

\* the system clock is set back (time.time() is not monotonic)
ClockSetBack ==
  /\ now > 1
  /\ now' \in 1..(now - 1)
  /\ UNCHANGED <<global_invocation_time, local_invocation_time, max_thoughts,
                 inv, hist, otherStarts, laterStarted, responses>>
  /\ UNCHANGED <<hintVars, storeVars, ctxVars>>

\* _update_invocation_times of a call on the instance o: the class variable,
\* and the instance variable of that instance
update_invocation_times(o) ==
  /\ global_invocation_time' = now
  /\ local_invocation_time' = IF o = "same" THEN now ELSE local_invocation_time

\* _check_concurrency_conflict with >= for >
check_concurrency_conflict_ge ==
  global_invocation_time >= local_invocation_time

\* _check_concurrency_conflict, called by A
check_concurrency_conflict ==
  global_invocation_time > local_invocation_time

\* --------------------------------------------------- Orchestration Loop
\* the loop passing the model's content on
LoopResponseText_content(content) == content

\* the text the loop passes to respond_text, whatever the model's content
LoopResponseText(content) == ""

\* the tool gate with <= for <
ToolGate_le(thoughts, maxT, calls) == thoughts <= maxT /\ calls > 0

\* "if thoughts < self.max_thoughts and llm_response.tool_calls and len(...) > 0"
ToolGate(thoughts, maxT, calls) == thoughts < maxT /\ calls > 0

\* "while thoughts < self.max_thoughts"
LoopCondition(thoughts, maxT) == thoughts < maxT

\* the tool list passed on every iteration, the last one too
OptionsFunctions_le(thoughts, maxT) == thoughts <= maxT

\* "functions=tools if thoughts < self.max_thoughts else None"
OptionsFunctions(thoughts, maxT) == thoughts < maxT

\* "if thoughts == self.max_thoughts": the note is appended to the conversation
ToolsUnavailableNote(thoughts, maxT) == thoughts = maxT

\* the entry of tool_results for the tool call at position id (tool_call.id is
\* modelled by the position): it holds "result" after a success and "error"
\* after a failure result or an exception
ResultEntry(id, outcome) ==
  [id |-> id, field |-> IF outcome = "success" THEN "result" ELSE "error"]

\* A frame f = [r |-> A's locals, h |-> A's history, out |-> the respond_text
\* calls of this step]; the operators below are the pieces of handle_text, each
\* giving the frame after it.

\* the bookkeeping of one _check_concurrency_conflict call with result c
RecordCheck(f, c, later) ==
  [f EXCEPT !.h.missedConflict = @ \/ (later /\ ~c),
            !.h.loneConflict = @ \/ (c /\ ~later),
            !.h.clearSeen = @ \/ ~c,
            !.h.conflictSeen = @ \/ c]

\* await self.response.respond_text(""), which returns (ok) or raises
RespondEmpty(f, ok) ==
  [f EXCEPT !.h.emptyCalls = Count(@),
            !.h.emptySent = IF ok THEN Count(@) ELSE @,
            !.out = Append(@, <<"loop", LoopResponseText(f.r.content)>>)]

\* return from handle_text, or leave it by an exception
Return_never(f, ok) == f
Return(f, ok) ==
  [f EXCEPT !.r.pc = IF ok THEN "done" ELSE "raised",
            !.r.tool_calls = 0, !.r.idx = 0,
            !.r.tool_results = <<>>, !.r.turn = <<>>]

\* lines 436-448: thoughts += 1, the note, the options, and llm.generate is awaited
IssueLlm(f, maxT) ==
  [f EXCEPT !.r.pc = "llm", !.r.thoughts = @ + 1,
            !.r.tool_calls = 0, !.r.idx = 0,
            !.r.functions = OptionsFunctions(f.r.thoughts + 1, maxT),
            !.r.note = ToolsUnavailableNote(f.r.thoughts + 1, maxT),
            !.h.llmCalls = @ + 1,
            !.h.actedAfterConflict = @ \/ f.h.conflictSeen]

\* tool_results.insert(0, ...) for append
AddResult_front(f, outcome) ==
  [f EXCEPT !.r.tool_results = <<ResultEntry(f.r.idx, outcome)>> \o @]

\* tool_results.append({...}) for the tool call being executed
AddResult(f, outcome) ==
  [f EXCEPT !.r.tool_results = Append(@, ResultEntry(f.r.idx, outcome))]

\* lines 531-540: one FUNCTION turn with all of tool_results is appended
AppendResultTurn(f) ==
  [f EXCEPT !.r.turn = f.r.tool_results, !.r.tool_results = <<>>,
            !.h.resultTurns = @ + 1]

\* tool_provider.execute_tool is awaited for the k-th tool call of the reply
StartTool(f, k, later) ==
  [f EXCEPT !.r.pc = "tool", !.r.idx = k,
            !.h.staleToolStart = @ \/ later,
            !.h.actedAfterConflict = @ \/ f.h.conflictSeen]

\* lines 546-553: the final check, then respond_text("") on either branch
FinalCheck(f, c, later, ok) ==
  Return(RespondEmpty(RecordCheck(f, c, later), ok), ok)

\* the head of "while thoughts < self.max_thoughts"
LoopHead(f, maxT, c, later, ok) ==
  IF LoopCondition(f.r.thoughts, maxT) THEN IssueLlm(f, maxT)
  ELSE FinalCheck(f, c, later, ok)

\* the for loop over llm_response.tool_calls moves on, or the result turn is
\* appended and the while loop continues
NextTool(f, maxT, c, later, ok) ==
  IF f.r.idx < f.r.tool_calls
  THEN [StartTool(f, f.r.idx + 1, later) EXCEPT !.h.conflictToolStart = @ \/ c]
  ELSE LoopHead(AppendResultTurn(f), maxT, c, later, ok)

\* the exception leaving handle_text instead of being caught
OnToolException_abort(f, maxT, c, later, ok) == Return(f, FALSE)

\* lines 523-529: "except Exception": an error entry, and the for loop goes on
OnToolException(f, maxT, c, later, ok) ==
  NextTool(AddResult(f, "raise"), maxT, c, later, ok)

\* lines 450-468 and 542-553: what follows the return of llm.generate
AfterLlm(f, maxT, calls, c, later, ok) ==
  LET f1 == RecordCheck([f EXCEPT !.r.turn = <<>>], c, later) IN
  IF c THEN Return(RespondEmpty(f1, ok), ok)
  ELSE IF ToolGate(f.r.thoughts, maxT, calls)
       THEN StartTool([f1 EXCEPT !.r.tool_calls = calls,
                                 !.h.toolRounds = @ + 1], 1, later)
       ELSE FinalCheck([f1 EXCEPT !.h.ignoredToolCalls = @ \/ (calls > 0)],
                       c, later, ok)

\* lines 476-529: what follows the return (or the exception) of execute_tool.
\* The check and its respond_text("") are inside the try block, so an
\* exception of respond_text is caught at line 523 and the for loop goes on.
AfterTool(f, maxT, outcome, c, later, ok) ==
  IF outcome = "raise" THEN OnToolException(f, maxT, c, later, ok)
  ELSE LET f1 == RecordCheck(f, c, later) IN
       IF c THEN (IF ok THEN Return(RespondEmpty(f1, ok), ok)
                  ELSE OnToolException(RespondEmpty(f1, ok), maxT, c, later, ok))
       ELSE NextTool(AddResult(f1, outcome), maxT, c, later, ok)

Frame == [r |-> inv, h |-> hist, out |-> <<>>]

\* A: handle_text is called: line 379, up to the first await
handle_text_start ==
  /\ inv.pc = "idle"
  /\ update_invocation_times("same")
  /\ inv' = [NotStarted EXCEPT !.pc = "context"]
  /\ hist' = [NoHistory EXCEPT !.token = now]
  /\ UNCHANGED <<now, max_thoughts, otherStarts, laterStarted, responses>>
  /\ UNCHANGED <<hintVars, storeVars, ctxVars>>

\* another handle_text call begins on instance o: its line 379
other_handle_text_start(o) ==
  /\ otherStarts < MaxOtherStarts
  /\ update_invocation_times(o)
  /\ otherStarts' = otherStarts + 1
  /\ laterStarted' = (laterStarted \/ Started)
  /\ UNCHANGED <<now, max_thoughts, inv, hist, responses>>
  /\ UNCHANGED <<hintVars, storeVars, ctxVars>>

\* A, lines 381-448: history and context are read, the first model call is issued
context_assembled(ok) ==
  /\ inv.pc = "context"
  /\ LET g == LoopHead(Frame, max_thoughts, check_concurrency_conflict,
                       laterStarted, ok)
     IN /\ inv' = g.r
        /\ hist' = g.h
        /\ responses' = g.out
  /\ UNCHANGED <<now, global_invocation_time, local_invocation_time, max_thoughts,
                 otherStarts, laterStarted>>
  /\ UNCHANGED <<hintVars, storeVars, ctxVars>>

\* A: llm.generate returns a reply with the given content that requests `calls`
\* tool calls (their names are drawn when each is executed)
llm_returns(calls, content, ok) ==
  /\ inv.pc = "llm"
  /\ LET g == AfterLlm([Frame EXCEPT !.r.content = content], max_thoughts, calls,
                       check_concurrency_conflict, laterStarted, ok)
     IN /\ inv' = g.r
        /\ hist' = g.h
        /\ responses' = g.out
  /\ UNCHANGED <<now, global_invocation_time, local_invocation_time, max_thoughts,
                 otherStarts, laterStarted>>
  /\ UNCHANGED <<hintVars, storeVars, ctxVars>>

\* A: llm.generate raises: nothing in handle_text catches it
llm_raises ==
  /\ inv.pc = "llm"
  /\ inv' = Return(Frame, FALSE).r
  /\ UNCHANGED <<now, global_invocation_time, local_invocation_time, max_thoughts,
                 hist, otherStarts, laterStarted>>
  /\ responses' = <<>>
  /\ UNCHANGED <<hintVars, storeVars, ctxVars>>

\* A: execute_tool(name, {"text": text}) returns a result (success or failure)
\* or raises; a say call that succeeds has passed its text to respond_text
tool_returns(name, text, outcome, ok) ==
  /\ inv.pc = "tool"
  /\ LET said == IF name = "say" /\ outcome = "success" THEN <<(<<"say", text>>)>>
                 ELSE <<>>
         g == AfterTool([Frame EXCEPT !.out = said], max_thoughts, outcome,
                        check_concurrency_conflict, laterStarted, ok)
     IN /\ inv' = g.r
        /\ hist' = g.h
        /\ responses' = g.out
  /\ UNCHANGED <<now, global_invocation_time, local_invocation_time, max_thoughts,
                 otherStarts, laterStarted>>
  /\ UNCHANGED <<hintVars, storeVars, ctxVars>>

\* ---------------------------------------------------------- Hint History
\* The list that an instance reads and appends to is the one Python finds under
\* self._hint_usage_history: the instance's own attribute once line 139 has
\* assigned it, and the class attribute before.

\* current_route is None (or empty)
NoRoute == <<>>

\* the slides a hint is given on: the route "/1", or none known
HintSlides == {<<1>>, NoRoute}

\* hint_entry: "n" tells the hints apart (the n-th hint added, its text and
\* timestamps), "slide" is slide_route or "[Unknown]", here <<0>>
HintEntry(n, slide_route) ==
  [n |-> n, slide |-> IF slide_route = NoRoute THEN <<0>> ELSE slide_route]

\* the instance has no attribute of its own yet
NoAttribute == [set |-> FALSE, list |-> <<>>]

\* self._hint_usage_history, looked up on instance i
hint_usage_history(i) ==
  IF instance_hint_usage_history[i].set
  THEN instance_hint_usage_history[i].list
  ELSE class_hint_usage_history

\* seq[-n:]
LastN(seq, n) ==
  IF Len(seq) > n THEN SubSeq(seq, Len(seq) - n + 1, Len(seq)) ELSE seq

\* the recent hints in the order of the list
Reversed_not(seq) == seq

\* reversed(seq)
Reversed(seq) == [k \in 1..Len(seq) |-> seq[Len(seq) - k + 1]]

\* the hints that _get_hint_usage_context lists for a history, in its order
HintUsageContext(history) ==
  IF history = <<>> THEN <<>> ELSE Reversed(LastN(history, RecentHints))

NoContext == [built |-> FALSE, read |-> <<>>, listed |-> <<>>]

HintsInit ==
  /\ class_hint_usage_history = <<>>
  /\ instance_hint_usage_history = [i \in Instances |-> NoAttribute]
  /\ hints_added = 0
  /\ hint_context = NoContext

\* _add_hint_to_history on instance i (under the lock): append changes the
\* list in place; the assignment of line 139 binds the attribute of the
\* instance to a new list
add_hint(i, slide_route) ==
  LET appended == Append(hint_usage_history(i),
                         HintEntry(hints_added + 1, slide_route))
      own == instance_hint_usage_history[i].set
  IN /\ hints_added' = hints_added + 1
     /\ class_hint_usage_history' =
          IF own THEN class_hint_usage_history ELSE appended
     /\ instance_hint_usage_history' =
          IF Len(appended) > HintCap
          THEN [instance_hint_usage_history EXCEPT
                  ![i] = [set |-> TRUE, list |-> LastN(appended, HintCap)]]
          ELSE IF own
               THEN [instance_hint_usage_history EXCEPT ![i].list = appended]
               ELSE instance_hint_usage_history

\* _add_hint_to_history, called by an invocation on instance i
add_hint_to_history(i, slide_route) ==
  /\ hints_added < MaxHints
  /\ add_hint(i, slide_route)
  /\ hint_context' = NoContext
  /\ UNCHANGED <<orchVars, storeVars, ctxVars>>

\* _get_hint_usage_context, called by an invocation on instance i
get_hint_usage_context(i) ==
  /\ hint_context' = [built |-> TRUE, read |-> hint_usage_history(i),
                      listed |-> HintUsageContext(hint_usage_history(i))]
  /\ UNCHANGED <<class_hint_usage_history, instance_hint_usage_history, hints_added>>
  /\ UNCHANGED <<orchVars, storeVars, ctxVars>>

\* ------------------------------------------- Presentation store and tools
\* A route is the sequence of its characters: "/1", "/10" and "/2" without
\* the slash.  The routes of a connection message are the pages of the
\* front-end, all different.
Routes == {<<1>>, <<1, 0>>, <<2>>}

Range(seq) == {seq[k] : k \in DOMAIN seq}

\* the route lists a connection message can carry
RouteLists ==
  {l \in UNION {[1..n -> Routes] : n \in 0..MaxRoutes} :
     \A j, k \in DOMAIN l : j # k => l[j] # l[k]}

\* a < b for Python strings
RECURSIVE LexLess(_, _)
LexLess(a, b) ==
  IF b = <<>> THEN FALSE
  ELSE IF a = <<>> THEN TRUE
  ELSE IF Head(a) # Head(b) THEN Head(a) < Head(b)
  ELSE LexLess(Tail(a), Tail(b))

RECURSIVE Insert(_, _)
Insert(r, s) ==
  IF s = <<>> THEN <<r>>
  ELSE IF LexLess(r, Head(s)) THEN <<r>> \o s
  ELSE <<Head(s)>> \o Insert(r, Tail(s))

RECURSIVE sorted(_)

\* the routes left in the stored order
sorted_not(s) == s

\* sorted(available_routes)
sorted(s) == IF s = <<>> THEN <<>> ELSE Insert(Head(s), sorted(Tail(s)))

\* s.index(r), counted from 0
Index(s, r) ==
  CHOOSE k \in 0..(Len(s) - 1) : s[k + 1] = r /\ \A j \in 1..k : s[j] # r

\* s[t] with Python's indices: from 0, and from the end when negative
Item(s, t) == IF t >= 0 THEN s[t + 1] ELSE s[Len(s) + t + 1]

\* "direction > 0 and target_index >= len(sorted_routes)"
AboveLast(direction, target_index, n) == direction > 0 /\ target_index >= n

\* the lower bound let through
BelowFirst_off(direction, target_index) == FALSE

\* "direction < 0 and target_index < 0"
BelowFirst(direction, target_index) == direction < 0 /\ target_index < 0

\* _get_route_index_and_target: the error ("" for None) and the target route
get_route_index_and_target(current, available_routes, direction) ==
  LET sorted_routes == sorted(available_routes) IN
  IF current \notin Range(sorted_routes)
  THEN [error |-> "not found in available routes", target |-> NoRoute]
  ELSE LET target_index == Index(sorted_routes, current) + direction IN
       IF AboveLast(direction, target_index, Len(sorted_routes))
       THEN [error |-> "Already at the last slide", target |-> NoRoute]
       ELSE IF BelowFirst(direction, target_index)
       THEN [error |-> "Already at the first slide", target |-> NoRoute]
       ELSE [error |-> "", target |-> Item(sorted_routes, target_index)]

\* goto_route: the messages that reach the front-end.  send_text raises on a
\* connection that is gone; goto_route logs the exception and returns.
goto_route_unguarded(route) == <<[type |-> "goto", route |-> route]>>
goto_route(route) ==
  IF websocket = "none" THEN <<>>
  ELSE IF route \notin Range(routes) THEN <<>>
  ELSE IF websocket = "open" THEN <<[type |-> "goto", route |-> route]>>
  ELSE <<>>

\* send_hint: the messages that reach the front-end
send_hint(hint_text) ==
  IF websocket = "none" THEN <<>>
  ELSE IF websocket = "open" THEN <<[type |-> "hint", text |-> hint_text]>>
  ELSE <<>>

\* The outcome of one execute_tool call: the ToolResult it returns (success,
\* error, and the routes its error message lists), or `raised` when the call
\* ends with an exception; the messages it sent to the front-end and the
\* texts it passed to respond_text; `parameters` is its parameter bag and
\* `fault` the operation of the store or of the response collaborator that
\* raised during the call.
NoCall ==
  [tool |-> "", parameters |-> [kind |-> "missing", value |-> <<>>],
   fault |-> "none", raised |-> FALSE, success |-> FALSE,
   error |-> "", listed |-> <<>>, sent |-> <<>>, said |-> <<>>]

\* a failure ToolResult; nothing has been sent when it is built
Failure_after_send(name, error) ==
  [NoCall EXCEPT !.tool = name, !.error = error,
                 !.sent = <<[type |-> "goto", route |-> current_route]>>]
Failure(name, error) == [NoCall EXCEPT !.tool = name, !.error = error]

\* _create_success_result, with what the call emitted
Success(name, sent, said) ==
  [NoCall EXCEPT !.tool = name, !.success = TRUE, !.sent = sent, !.said = said]

\* an exception that no except clause of the tool provider catches
Raised(name) == [NoCall EXCEPT !.tool = name, !.raised = TRUE]

\* _handle_tool_exception
handle_tool_exception(name, operation_name) == Failure(name, operation_name)

\* The parameter bag of a tool with one required parameter: the parameter is
\* missing, is not a string (123), or is the string `value`.
Missing == [kind |-> "missing", value |-> <<>>]
NotAString == [kind |-> "int", value |-> <<>>]
Str(value) == [kind |-> "str", value |-> value]

\* _validate_required_parameter(parameters, param_name, str): the error, ""
\* when there is none
validate_required_parameter_present(parameters) ==
  IF parameters.kind = "missing" THEN "Missing required parameter" ELSE ""
validate_required_parameter(parameters) ==
  IF parameters.kind = "missing" THEN "Missing required parameter"
  ELSE IF parameters.kind # "str" THEN "must be a str"
  ELSE ""

\* _validate_websocket_connection: TRUE when it returns an error
validate_websocket_connection_skipped == FALSE
validate_websocket_connection == websocket = "none"

\* ', '.join(available_routes): the characters of the routes in the order of
\* the list, two routes separated by ", "
Separator == <<-1, -1>>
RECURSIVE join(_)
join(l) ==
  IF l = <<>> THEN <<>>
  ELSE IF Len(l) = 1 THEN l[1]
  ELSE l[1] \o Separator \o join(Tail(l))

\* the failure of goto_slide for a route that is not in available_routes
RouteNotFound_sorted(available_routes) ==
  [Failure("goto_slide", "Route not found") EXCEPT
     !.listed = join(sorted(available_routes))]
RouteNotFound(available_routes) ==
  [Failure("goto_slide", "Route not found") EXCEPT
     !.listed = join(available_routes)]

\* _execute_navigation(direction) for the tool `name`; everything is inside
\* its try block
execute_navigation(name, direction, fault) ==
  IF fault \in {"get_current_route", "get_all_routes"}
    THEN handle_tool_exception(name, "Failed to navigate")
  ELSE IF routes = <<>> THEN Failure(name, "No routes available")
  ELSE IF current_route = NoRoute THEN Failure(name, "Current route is unknown")
  ELSE IF validate_websocket_connection
    THEN Failure(name, "WebSocket not connected")
  ELSE LET t == get_route_index_and_target(current_route, routes, direction) IN
       IF t.error # "" THEN Failure(name, t.error)
       ELSE IF fault = "goto_route"
         THEN handle_tool_exception(name, "Failed to navigate")
       ELSE Success(name, goto_route(t.target), <<>>)

\* _execute_goto_slide(parameters): the validation, the read of the routes
\* and the transport check come before its try block
execute_goto_slide(parameters, fault) ==
  LET validation_error == validate_required_parameter(parameters) IN
  IF validation_error # "" THEN Failure("goto_slide", validation_error)
  ELSE IF fault = "get_all_routes" THEN Raised("goto_slide")
  ELSE IF routes = <<>> THEN Failure("goto_slide", "No routes available")
  ELSE IF parameters.value \notin Range(routes) THEN RouteNotFound(routes)
  ELSE IF validate_websocket_connection
    THEN Failure("goto_slide", "WebSocket not connected")
  ELSE IF fault \in {"get_current_route", "goto_route"}
    THEN handle_tool_exception("goto_slide", "Failed to navigate to slide")
  ELSE Success("goto_slide", goto_route(parameters.value), <<>>)

\* _execute_say(parameters)
execute_say(parameters, fault) ==
  LET validation_error == validate_required_parameter(parameters) IN
  IF validation_error # "" THEN Failure("say", validation_error)
  ELSE IF fault = "respond_text"
    THEN handle_tool_exception("say", "Failed to say text")
  ELSE Success("say", <<>>, <<parameters.value>>)

\* _execute_hint(parameters)
execute_hint(parameters, fault) ==
  LET validation_error == validate_required_parameter(parameters) IN
  IF validation_error # "" THEN Failure("hint", validation_error)
  ELSE IF validate_websocket_connection
    THEN Failure("hint", "WebSocket not connected")
  ELSE IF fault = "send_hint"
    THEN handle_tool_exception("hint", "Failed to send hint")
  ELSE Success("hint", send_hint(parameters.value), <<>>)

\* _execute_get_all_slide_details: get_all_slide_contents has one key for
\* each entry of route_data
execute_get_all_slide_details(fault) ==
  IF fault = "get_all_slide_contents"
    THEN handle_tool_exception("get_all_slide_details",
                               "Failed to retrieve slide details")
  ELSE IF route_data = <<>>
    THEN Failure("get_all_slide_details", "No slide contents available")
  ELSE Success("get_all_slide_details", <<>>, <<>>)

\* read_route_file_content: the content of the route's page, None (<<>>)
\* when the file cannot be read
NoContent == <<>>
read_route_file_content(route, readable) ==
  IF route \in readable THEN <<"page", route>> ELSE NoContent

\* load_route_contents(routes): one entry for each route, in the order of the
\* list
load_route_contents_readable(rs, readable) ==
  LET read == SelectSeq(rs, LAMBDA r : r \in readable) IN
  [k \in DOMAIN read |->
     [route |-> read[k], content |-> read_route_file_content(read[k], readable)]]
load_route_contents(rs, readable) ==
  [k \in DOMAIN rs |->
     [route |-> rs[k], content |-> read_route_file_content(rs[k], readable)]]

\* The inbound message of the front-end channel handled in the latest step:
\* its kind, its "routes" and "currentRoute", the pages that could be read
\* while it was handled, and whether handle_message raised on it.
NoInbound ==
  [kind |-> "", raised |-> FALSE, routes |-> <<>>, currentRoute |-> <<>>,
   readable |-> {}]

\* The messages handle_message only logs: text that is not JSON
\* (json.JSONDecodeError), JSON that is not an object (message.get raises
\* AttributeError), a type that is none of the three known ones, and a
\* heartbeat.
IgnoredKinds == {"malformed", "not_an_object", "unknown_type", "heartbeat"}

\* the exception the body of handle_message raises on the message
Exception(kind) ==
  IF kind = "malformed" THEN "JSONDecodeError"
  ELSE IF kind = "not_an_object" THEN "AttributeError"
  ELSE ""

\* the except clauses of handle_message: json.JSONDecodeError and Exception
Caught_JSONDecodeError(exception) == exception = "JSONDecodeError"
Caught(exception) == exception = "JSONDecodeError" \/ exception # ""

\* The runs of websocket_endpoint: the connections whose run is in its
\* receive loop on a live socket (`open`), those whose socket is closed while
\* the run has not reached its finally clause yet (`lost`), and the
\* connection the handle of the store refers to (0: none of them).
NoConnections == [open |-> {}, lost |-> {}, handle |-> 0]
Connections == 1..MaxConnections

StoreInit ==
  /\ connections = NoConnections
  /\ routes = <<>>
  /\ route_data = <<>>
  /\ current_route = NoRoute
  /\ websocket = "none"
  /\ inbound = NoInbound
  /\ call = NoCall

\* handle_message for {"type": "connection", "routes": rs, "currentRoute": cur}
\* when the pages of the routes in `readable` can be read
handle_message_connection(rs, cur, readable) ==
  /\ routes' = rs
  /\ current_route' = cur
  /\ route_data' = load_route_contents(rs, readable)
  /\ inbound' = [NoInbound EXCEPT !.kind = "connection", !.routes = rs,
                                   !.currentRoute = cur, !.readable = readable]
  /\ call' = NoCall
  /\ UNCHANGED websocket
  /\ UNCHANGED <<connections, orchVars, hintVars, ctxVars>>

\* `if new_route:` of the route_change branch; a currentRoute that is missing
\* (None) or empty is NoRoute
route_change_applies_always(new_route) == TRUE
route_change_applies(new_route) == new_route # NoRoute

\* handle_message for {"type": "route_change", "currentRoute": cur}
handle_message_route_change(cur) ==
  /\ current_route' = IF route_change_applies(cur) THEN cur ELSE current_route
  /\ inbound' = [NoInbound EXCEPT !.kind = "route_change", !.currentRoute = cur]
  /\ call' = NoCall
  /\ UNCHANGED <<routes, route_data, websocket>>
  /\ UNCHANGED <<connections, orchVars, hintVars, ctxVars>>

\* handle_message for a message of IgnoredKinds.  An exception that leaves
\* handle_message ends the loop of websocket_endpoint, whose finally clause
\* clears the handle.
handle_message_ignored(kind) ==
  LET exception == Exception(kind)
      raised == exception # "" /\ ~Caught(exception) IN
  /\ inbound' = [NoInbound EXCEPT !.kind = kind, !.raised = raised]
  /\ websocket' = IF raised THEN "none" ELSE websocket
  /\ call' = NoCall
  /\ UNCHANGED <<routes, route_data, current_route>>
  /\ UNCHANGED <<connections, orchVars, hintVars, ctxVars>>

\* set_websocket: a front-end connection is accepted
set_websocket ==
  /\ websocket' = "open"
  /\ inbound' = NoInbound
  /\ call' = NoCall
  /\ UNCHANGED <<routes, route_data, current_route>>
  /\ UNCHANGED <<connections, orchVars, hintVars, ctxVars>>

\* the connection behind the handle is lost; the handle is still set
connection_lost ==
  /\ websocket = "open"
  /\ websocket' = "gone"
  /\ inbound' = NoInbound
  /\ call' = NoCall
  /\ UNCHANGED <<routes, route_data, current_route>>
  /\ UNCHANGED <<connections, orchVars, hintVars, ctxVars>>

\* clear_websocket
clear_websocket ==
  /\ websocket' = "none"
  /\ inbound' = NoInbound
  /\ call' = NoCall
  /\ UNCHANGED <<routes, route_data, current_route>>
  /\ UNCHANGED <<connections, orchVars, hintVars, ctxVars>>

\* self.current_route after goto_route and send_hint have sent `sent`: neither
\* assigns it
current_route_after_goto(sent) ==
  IF sent # <<>> /\ sent[1].type = "goto" THEN sent[1].route ELSE current_route
current_route_after(sent) == current_route

\* websocket_endpoint: connection c is accepted and set_websocket stores its
\* socket
endpoint_accept(c) ==
  /\ c \notin connections.open \cup connections.lost
  /\ connections' = [connections EXCEPT !.open = @ \cup {c}, !.handle = c]
  /\ websocket' = "open"
  /\ inbound' = NoInbound
  /\ call' = NoCall
  /\ UNCHANGED <<routes, route_data, current_route>>
  /\ UNCHANGED <<orchVars, hintVars, ctxVars>>

\* the front-end closes connection c; the run of websocket_endpoint for c has
\* not been resumed yet
endpoint_connection_closes(c) ==
  /\ c \in connections.open
  /\ connections' = [connections EXCEPT !.open = @ \ {c}, !.lost = @ \cup {c}]
  /\ websocket' = IF connections.handle = c THEN "gone" ELSE websocket
  /\ inbound' = NoInbound
  /\ call' = NoCall
  /\ UNCHANGED <<routes, route_data, current_route>>
  /\ UNCHANGED <<orchVars, hintVars, ctxVars>>

\* the handle websocket_endpoint leaves behind when the run for connection c
\* ends: its finally clause calls clear_websocket, whatever the handle is
handle_after_finally(c) == 0

\* websocket_endpoint: receive_text raises on the closed connection c and the
\* finally clause runs
endpoint_finally(c) ==
  /\ c \in connections.lost
  /\ connections' = [connections EXCEPT !.lost = @ \ {c},
                                        !.handle = handle_after_finally(c)]
  /\ websocket' = IF handle_after_finally(c) = 0 THEN "none" ELSE websocket
  /\ inbound' = NoInbound
  /\ call' = NoCall
  /\ UNCHANGED <<routes, route_data, current_route>>
  /\ UNCHANGED <<orchVars, hintVars, ctxVars>>

\* an execute_tool call with `parameters` that ends as `result` while `fault`
\* raises
ToolCall(result, parameters, fault) ==
  /\ call' = [result EXCEPT !.parameters = parameters, !.fault = fault]
  /\ inbound' = NoInbound
  /\ current_route' = current_route_after(result.sent)
  /\ UNCHANGED <<routes, route_data, websocket>>
  /\ UNCHANGED <<connections, orchVars, hintVars, ctxVars>>

\* execute_tool("next_slide", {})
execute_next_slide(fault) ==
  ToolCall(execute_navigation("next_slide", 1, fault), Missing, fault)

\* execute_tool("previous_slide", {})
execute_previous_slide(fault) ==
  ToolCall(execute_navigation("previous_slide", -1, fault), Missing, fault)

\* execute_tool("goto_slide", parameters)
execute_tool_goto_slide(parameters, fault) ==
  ToolCall(execute_goto_slide(parameters, fault), parameters, fault)

\* execute_tool("say", parameters)
execute_tool_say(parameters, fault) ==
  ToolCall(execute_say(parameters, fault), parameters, fault)

\* execute_tool("hint", parameters)
execute_tool_hint(parameters, fault) ==
  ToolCall(execute_hint(parameters, fault), parameters, fault)

\* execute_tool("get_all_slide_details", {})
execute_tool_get_all_slide_details(fault) ==
  ToolCall(execute_get_all_slide_details(fault), Missing, fault)

\* execute_tool with a name that is none of the six tools
execute_tool_unknown ==
  ToolCall(Failure("unknown", "Unknown tool"), Missing, "none")

\* One round of periodic_navigation_task after its sleep: with routes in the
\* store, goto_route(random.choice(available_routes)) and then send_hint.
\* The round is recorded as the latest call, under the name of the coroutine.
periodic_navigation_task(random_route) ==
  /\ routes # <<>>
  /\ random_route \in Range(routes)
  /\ call' = [NoCall EXCEPT
               !.tool = "periodic_navigation_task",
               !.success = TRUE,
               !.sent = goto_route(random_route) \o send_hint("Hello World!")]
  /\ inbound' = NoInbound
  /\ UNCHANGED <<routes, route_data, current_route, websocket>>
  /\ UNCHANGED <<connections, orchVars, hintVars, ctxVars>>

\* ------------------------------------------------------ Context assembly
\* A text is the sequence of the pieces it is the concatenation of; "" is <<>>.
\* A message of the conversation is its role and its text (one TEXT content).
Message(role, text) == [role |-> role, text |-> text]
User(text) == Message("user", text)
System(text) == Message("system", text)

\* the texts of the user turns of a history: a word, a word between blanks,
\* a blank, and the empty text
UserTexts == {<<"Hello">>, <<" there ">>, <<" ">>, <<>>}

\* the turns of a history: user turns, an assistant turn, a function turn
Turns ==
  {User(t) : t \in UserTexts}
    \cup {Message("assistant", <<"reply">>), Message("function", <<"calls">>)}

\* what history.get_history() returns
Histories == UNION {[1..n -> Turns] : n \in 0..MaxTurns}

\* content.text.strip() on the texts of UserTexts
strip(text) ==
  IF text = <<" there ">> THEN <<"there">>
  ELSE IF text = <<" ">> THEN <<>>
  ELSE text

\* "\n".join(texts)
RECURSIVE join_lines(_)
join_lines(texts) ==
  IF texts = <<>> THEN <<>>
  ELSE IF Len(texts) = 1 THEN texts[1]
  ELSE texts[1] \o <<"\n">> \o join_lines(Tail(texts))

\* "\n\n".join(texts)
RECURSIVE join_paragraphs(_)
join_paragraphs(texts) ==
  IF texts = <<>> THEN <<>>
  ELSE IF Len(texts) = 1 THEN texts[1]
  ELSE texts[1] \o <<"\n\n">> \o join_paragraphs(Tail(texts))

\* _create_concatenated_user_message
create_concatenated_user_message(user_messages) ==
  IF Len(user_messages) = 1 THEN user_messages[1]
  ELSE LET with_text == SelectSeq(user_messages, LAMBDA m : m.text # <<>>)
           concatenated_texts ==
             [k \in DOMAIN with_text |-> strip(with_text[k].text)]
       IN User(join_paragraphs(concatenated_texts))

\* the loop of _concatenate_consecutive_user_messages over the messages left,
\* with the user messages collected so far
RECURSIVE concatenate_loop(_, _)
concatenate_loop(messages, current_user_messages) ==
  LET flushed == IF current_user_messages # <<>>
                   THEN <<create_concatenated_user_message(current_user_messages)>>
                   ELSE <<>>
  IN IF messages = <<>> THEN flushed
     ELSE IF Head(messages).role = "user"
       THEN concatenate_loop(Tail(messages),
                             Append(current_user_messages, Head(messages)))
     ELSE flushed \o <<Head(messages)>> \o concatenate_loop(Tail(messages), <<>>)

\* _concatenate_consecutive_user_messages
concatenate_consecutive_user_messages(messages) ==
  IF messages = <<>> THEN messages ELSE concatenate_loop(messages, <<>>)

\* the latest _concatenate_consecutive_user_messages call: its argument and
\* what it returned
NoMerge == [called |-> FALSE, messages |-> <<>>, result |-> <<>>]

\* a call of _concatenate_consecutive_user_messages on a history
concatenate_call(messages) ==
  /\ ~merge.called
  /\ merge' = [called |-> TRUE, messages |-> messages,
               result |-> concatenate_consecutive_user_messages(messages)]
  /\ UNCHANGED <<instance, contexts, outbox>>
  /\ UNCHANGED <<orchVars, hintVars, storeVars>>

\* the caller has taken the result
concatenate_returned ==
  /\ merge.called
  /\ merge' = NoMerge
  /\ UNCHANGED <<instance, contexts, outbox>>
  /\ UNCHANGED <<orchVars, hintVars, storeVars>>

\* The transcription file: whether it is there, and its lines.
NoFile == [exists |-> FALSE, lines |-> <<>>]
File(lines) == [exists |-> TRUE, lines |-> lines]

\* A line of the file that is a JSON object: its message_text, the
\* current_slide of its slide_info ("missing" when the key is not there) and
\* its elapsed_time ("" when the key is not there).
Record(message_text, current_slide, elapsed_time) ==
  [kind |-> "record", message_text |-> message_text,
   current_slide |-> current_slide, elapsed_time |-> elapsed_time]

\* The other lines: text that is not JSON (json.JSONDecodeError), a line of
\* blanks, and JSON that is not an object (entry.get raises AttributeError).
OtherLine(kind) ==
  [kind |-> kind, message_text |-> <<>>, current_slide |-> "",
   elapsed_time |-> ""]
MalformedLine == OtherLine("malformed")

\* the lines of the files that are loaded
TranscriptLines ==
  {Record(<<"Hello">>, "slide-1", "00:05"),
   Record(<<" there ">>, "[Not set]", "00:05"),
   Record(<<"Hello">>, "missing", ""),
   Record(<<" ">>, "slide-1", "00:05"),
   Record(<<>>, "", "")}
    \cup {OtherLine(kind) : kind \in {"malformed", "blank", "not_an_object"}}

\* the files of up to MaxLines lines, and no file
AllTranscriptionFiles ==
  {NoFile} \cup {File(lines) :
                   lines \in UNION {[1..n -> TranscriptLines] : n \in 0..MaxLines}}

\* The orchestrator instance whose handle_text calls assemble a context: its
\* system_prompt ("" when none is configured), its _transcription_loaded
\* flag, the transcription file, and what has happened so far: `inserts`,
\* the invocations that inserted transcript content, and `reloads`, a call of
\* _load_transcription_content made after one of them.
NoInstance ==
  [constructed |-> FALSE, system_prompt |-> "", transcription_loaded |-> FALSE,
   file |-> NoFile, inserts |-> 0, reloads |-> FALSE]

\* the transcription file of the context assembly: missing (or no path
\* configured), without a record that has a message text, or with a record
TranscriptionFiles ==
  {NoFile, File(<<MalformedLine>>),
   File(<<Record(<<"Hello">>, "slide-1", "00:05")>>)}

\* the pieces of a formatted entry and of the block
SpeakerSaid == "Speaker said: \""
Quote == "\""
Header == "This is a transcription of the talk that was given previously:\n\n"

\* `if not message_text: continue` (line 207), on the stripped text
has_text_always(message_text) == TRUE
has_text(message_text) == message_text # <<>>

\* lines 211-227: the formatted entry of a record
formatted_entry(line) ==
  LET message_text == strip(line.message_text)
      current_slide == IF line.current_slide = "missing"
                         THEN "unknown-slide" ELSE line.current_slide
      elapsed == IF line.elapsed_time # ""
                   THEN <<"[", line.elapsed_time, "] ">> ELSE <<>>
      slide == IF current_slide # "" /\ current_slide # "[Not set]"
                 THEN <<"[Slide: ", current_slide, "] ">> ELSE <<>>
  IN elapsed \o slide \o <<SpeakerSaid>> \o message_text \o <<Quote>>

\* the loop of lines 199-236: transcription_lines for the lines left; a line
\* that is blank, is not a JSON object or has no text adds nothing
RECURSIVE transcription_lines(_)
transcription_lines(lines) ==
  IF lines = <<>> THEN <<>>
  ELSE LET line == Head(lines) IN
       (IF line.kind = "record" /\ has_text(strip(line.message_text))
          THEN <<formatted_entry(line)>> ELSE <<>>)
         \o transcription_lines(Tail(lines))

\* _load_transcription_content: the header and the formatted entries joined
\* by "\n"; "" when there is no file or no entry
load_transcription_content(file) ==
  IF ~file.exists THEN <<>>
  ELSE LET entries == transcription_lines(file.lines) IN
       IF entries = <<>> THEN <<>> ELSE <<Header>> \o join_lines(entries)

\* self._transcription_loaded after lines 392-397
transcription_loaded_never(loaded, transcription_content) == loaded
transcription_loaded_after(loaded, transcription_content) ==
  IF transcription_content # <<>> THEN TRUE ELSE loaded

\* list.insert(position, x), positions counted from 0
list_insert(l, position, x) ==
  LET p == IF position > Len(l) THEN Len(l) ELSE position
  IN SubSeq(l, 1, p) \o <<x>> \o SubSeq(l, p + 1, Len(l))

\* insert_position of the k-th block after the transcription (0: the slide
\* context, 1: the elapsed time, 2: the hint history)
insert_position_fixed(system_prompt, transcription_added, k) == k + 1
insert_position(system_prompt, transcription_added, k) ==
  (IF system_prompt # "" THEN 1 ELSE 0)
    + (IF transcription_added THEN 1 ELSE 0) + k

\* the blocks handle_text builds from the store, the clock and the Hint History
SlideContext == System(<<"slide context">>)
ElapsedTime == System(<<"elapsed time">>)
HintContext == System(<<"hint history">>)
ToolsUnavailable == System(<<"Maximum tool usage reached. Tools Unavailable">>)
Utterance == User(<<"utterance">>)

\* One handle_text call of the instance, up to its first model call: where it
\* is, the history it read, its conversation and its transcription_added.
NoContextCall ==
  [pc |-> "idle", raw_conversation |-> <<>>, conversation |-> <<>>,
   transcription_content |-> <<>>, transcription_added |-> FALSE]

\* the handle_text calls that may overlap on the instance
Calls == 1..MaxCalls

\* the histories a call of this part reads
ContextHistories ==
  {<<>>, <<User(<<"Hello">>), User(<<" there ">>), Message("assistant", <<"reply">>)>>}

ContextInit ==
  /\ instance = NoInstance
  /\ contexts = [c \in Calls |-> NoContextCall]
  /\ merge = NoMerge
  /\ outbox = <<>>

\* __init__ of the orchestrator
construct(system_prompt) ==
  /\ ~instance.constructed
  /\ instance' = [NoInstance EXCEPT !.constructed = TRUE,
                                    !.system_prompt = system_prompt,
                                    !.file = instance.file]
  /\ UNCHANGED <<contexts, merge, outbox>>
  /\ UNCHANGED <<orchVars, hintVars, storeVars>>

\* the transcription file is written, emptied or removed
transcription_file_changes(file) ==
  /\ file # instance.file
  /\ instance' = [instance EXCEPT !.file = file]
  /\ UNCHANGED <<contexts, merge, outbox>>
  /\ UNCHANGED <<orchVars, hintVars, storeVars>>

\* a handle_text call begins and awaits history.get_history() (line 382)
context_start(c) ==
  /\ instance.constructed
  /\ contexts[c].pc = "idle"
  /\ contexts' = [contexts EXCEPT ![c].pc = "history"]
  /\ UNCHANGED <<instance, merge, outbox>>
  /\ UNCHANGED <<orchVars, hintVars, storeVars>>

\* lines 382-397: the history is merged, the system prompt and the
\* transcription are inserted; the call then awaits the slide context
history_read(c, raw_conversation) ==
  /\ contexts[c].pc = "history"
  /\ LET merged == concatenate_consecutive_user_messages(raw_conversation)
         prompted == IF instance.system_prompt # ""
                       THEN list_insert(merged, 0,
                                        System(<<instance.system_prompt>>))
                       ELSE merged
         loads == ~instance.transcription_loaded
         transcription_content ==
           IF loads THEN load_transcription_content(instance.file) ELSE <<>>
         transcription_added == transcription_content # <<>>
         conversation ==
           IF transcription_added
             THEN list_insert(prompted,
                              IF instance.system_prompt # "" THEN 1 ELSE 0,
                              User(transcription_content))
             ELSE prompted
     IN /\ contexts' = [contexts EXCEPT ![c] =
             [pc |-> "slide", raw_conversation |-> raw_conversation,
              conversation |-> conversation,
              transcription_content |-> transcription_content,
              transcription_added |-> transcription_added]]
        /\ instance' = [instance EXCEPT
             !.transcription_loaded =
                transcription_loaded_after(@, transcription_content),
             !.reloads = @ \/ (loads /\ instance.inserts > 0),
             !.inserts = IF transcription_added THEN Count(@) ELSE @]
  /\ UNCHANGED <<merge, outbox>>
  /\ UNCHANGED <<orchVars, hintVars, storeVars>>

\* lines 400-448: the slide context, the elapsed time and the hint history are
\* inserted, the utterance is appended, and the conversation is passed to the
\* first model call (after the note, when max_thoughts is 1)
first_generate(c) ==
  /\ contexts[c].pc = "slide"
  /\ LET added == contexts[c].transcription_added
         position(k) == insert_position(instance.system_prompt, added, k)
         with_slide == list_insert(contexts[c].conversation, position(0),
                                   SlideContext)
         with_time == list_insert(with_slide, position(1), ElapsedTime)
         with_hints == list_insert(with_time, position(2), HintContext)
         with_text == Append(with_hints, Utterance)
     IN contexts' = [contexts EXCEPT
          ![c].pc = "llm",
          ![c].conversation =
             IF ToolsUnavailableNote(1, max_thoughts)
               THEN Append(with_text, ToolsUnavailable) ELSE with_text]
  /\ UNCHANGED <<instance, merge, outbox>>
  /\ UNCHANGED <<orchVars, hintVars, storeVars>>

\* the rest of the handle_text call
context_returns(c) ==
  /\ contexts[c].pc = "llm"
  /\ contexts' = [contexts EXCEPT ![c] = NoContextCall]
  /\ UNCHANGED <<instance, merge, outbox>>
  /\ UNCHANGED <<orchVars, hintVars, storeVars>>

\* ------------------------------------------ Tool effects in handle_text
\* the tools the model requests in this part
EffectTools == {"hint", "next_slide"}

\* self.tool_provider.execute_tool(tool_name, tool_args), no operation of the
\* store raising
execute_tool(name, parameters) ==
  IF name = "hint" THEN execute_hint(parameters, "none")
  ELSE execute_navigation("next_slide", 1, "none")

\* lines 483-487: tool_args.get("text", "") or tool_args.get("hint", "") or
\* tool_args.get("message", ""), where `alt` is what the keys "hint" and
\* "message" give; a parameter that is not a string is 123
hint_text_of(parameters, alt) ==
  IF parameters.kind = "int" THEN "123"
  ELSE IF parameters.kind = "str" /\ parameters.value # "" THEN parameters.value
  ELSE alt

\* lines 479-489: the hint is recorded; the condition comes before the
\* conflict check of line 505 and does not depend on it
hint_tracked_without_conflict(name, success, hint_text, conflict) ==
  name = "hint" /\ success /\ hint_text # "" /\ ~conflict
hint_tracked_whatever_the_result(name, success, hint_text, conflict) ==
  name = "hint" /\ hint_text # ""
hint_tracked(name, success, hint_text, conflict) ==
  name = "hint" /\ success /\ hint_text # ""

\* A: execute_tool returns or raises (lines 472-529): the tool has acted on
\* the store and the transport, a hint is recorded, then the conflict is
\* checked; when execute_tool raises, the except clause of line 523 skips
\* all of it.  `alt` is the text under the keys "hint" and "message" of the
\* arguments.
tool_executes(name, parameters, alt, raises, ok) ==
  /\ inv.pc = "tool"
  /\ LET tool_result ==
           IF raises THEN Raised(name) ELSE execute_tool(name, parameters)
         conflict == check_concurrency_conflict
         g == AfterTool(Frame, max_thoughts,
                        IF raises THEN "raise"
                        ELSE IF tool_result.success THEN "success" ELSE "failure",
                        conflict, laterStarted, ok)
     IN /\ call' = [tool_result EXCEPT !.parameters = parameters]
        /\ outbox' = outbox \o tool_result.sent
        /\ IF ~raises /\ hint_tracked(name, tool_result.success,
                                      hint_text_of(parameters, alt), conflict)
             THEN add_hint("same", current_route)
             ELSE UNCHANGED <<class_hint_usage_history,
                              instance_hint_usage_history, hints_added>>
        /\ inv' = g.r
        /\ hist' = g.h
        /\ responses' = g.out
  /\ inbound' = NoInbound
  /\ UNCHANGED <<now, global_invocation_time, local_invocation_time, max_thoughts,
                 otherStarts, laterStarted>>
  /\ UNCHANGED <<hint_context, routes, route_data, current_route, websocket,
                 connections>>
  /\ UNCHANGED <<instance, contexts, merge>>

Init ==
  /\ now = 1
  /\ global_invocation_time = 0
  /\ local_invocation_time = 0
  /\ max_thoughts \in 1..MaxThoughtsBound
  /\ inv = NotStarted
  /\ hist = NoHistory
  /\ otherStarts = 0
  /\ laterStarted = FALSE
  /\ responses = <<>>
  /\ HintsInit
  /\ StoreInit
  /\ ContextInit

\* how a respond_text("") call of the step ends: it returns (TRUE) or raises
\* (FALSE); a step that makes no such call is not enumerated twice
RespondOutcomes(called) == IF called THEN BOOLEAN ELSE {TRUE}

\* the texts to tell apart in one execute_tool call: the text reaches
\* respond_text only from a say call that succeeds
ToolTexts(name, outcome) ==
  IF name = "say" /\ outcome = "success" THEN Texts ELSE {""}

Next ==
  \/ Tick
  \/ ClockSetBack
  \/ handle_text_start
  \/ \E o \in Instances : other_handle_text_start(o)
  \/ context_assembled(TRUE)
  \/ \E calls \in 0..MaxToolCalls, content \in Texts :
       \E ok \in RespondOutcomes(check_concurrency_conflict
                                 \/ ~ToolGate(inv.thoughts, max_thoughts, calls)) :
         llm_returns(calls, content, ok)
  \/ llm_raises
  \/ \E name \in ToolNames, outcome \in Outcomes :
       \E text \in ToolTexts(name, outcome),
          ok \in RespondOutcomes(outcome # "raise" /\ check_concurrency_conflict) :
         tool_returns(name, text, outcome, ok)

Spec == Init /\ [][Next]_vars

\* A when every call it awaits returns: the model replies, respond_text
\* returns, and a tool execution returns or raises.  The event loop resumes
\* A whenever the call it awaits has completed, so each of A's steps is
\* taken once it can be taken.
NextLive ==
  \/ Tick
  \/ handle_text_start
  \/ \E o \in Instances : other_handle_text_start(o)
  \/ context_assembled(TRUE)
  \/ \E calls \in 0..MaxToolCalls, content \in Texts :
       llm_returns(calls, content, TRUE)
  \/ \E name \in ToolNames, outcome \in Outcomes :
       \E text \in ToolTexts(name, outcome) :
         tool_returns(name, text, outcome, TRUE)

Fairness ==
  /\ WF_vars(context_assembled(TRUE))
  /\ WF_vars(\E calls \in 0..MaxToolCalls, content \in Texts :
               llm_returns(calls, content, TRUE))
  /\ WF_vars(\E name \in ToolNames, outcome \in Outcomes :
               \E text \in ToolTexts(name, outcome) :
                 tool_returns(name, text, outcome, TRUE))

SpecLive == Init /\ [][NextLive]_vars /\ Fairness

\* the Hint History under the invocations of the process
NextHints ==
  \/ \E i \in Instances, slide_route \in HintSlides :
       add_hint_to_history(i, slide_route)
  \/ \E i \in Instances : get_hint_usage_context(i)

SpecHints == Init /\ [][NextHints]_vars

\* the pages that can be read when a connection message arrives: the page of
\* "/2" is missing
ReadableSets == {Routes \ {<<2>>}}

\* the parameter bags of a tool whose parameter is one of `values`
ParameterBags(values) == {Missing, NotAString} \cup {Str(v) : v \in values}

\* the presentation store under the front-end's messages, and the tools of
\* the tool provider; in a tool call one operation of its collaborators may
\* raise
NextNav ==
  \/ \E rs \in RouteLists, cur \in Routes \cup {NoRoute},
        readable \in ReadableSets :
       handle_message_connection(rs, cur, readable)
  \/ \E cur \in Routes \cup {NoRoute} : handle_message_route_change(cur)
  \/ \E kind \in IgnoredKinds : handle_message_ignored(kind)
  \/ set_websocket
  \/ connection_lost
  \/ clear_websocket
  \/ \E fault \in {"none", "get_current_route", "get_all_routes", "goto_route"} :
       execute_next_slide(fault)
  \/ \E fault \in {"none", "get_current_route", "get_all_routes", "goto_route"} :
       execute_previous_slide(fault)
  \/ \E parameters \in ParameterBags(Routes),
        fault \in {"none", "get_current_route", "get_all_routes", "goto_route"} :
       execute_tool_goto_slide(parameters, fault)
  \/ \E parameters \in ParameterBags(Texts), fault \in {"none", "respond_text"} :
       execute_tool_say(parameters, fault)
  \/ \E parameters \in ParameterBags(Texts), fault \in {"none", "send_hint"} :
       execute_tool_hint(parameters, fault)
  \/ \E fault \in {"none", "get_all_slide_contents"} :
       execute_tool_get_all_slide_details(fault)
  \/ execute_tool_unknown
  \/ \E random_route \in Routes : periodic_navigation_task(random_route)

SpecNav == Init /\ [][NextNav]_vars

\* the runs of websocket_endpoint for up to MaxConnections connections that
\* overlap: each run stores its socket, passes the messages it receives to
\* handle_message and clears the handle when it ends; next_slide is called
\* meanwhile
NextChannel ==
  \/ \E c \in Connections : endpoint_accept(c)
  \/ \E c \in Connections : endpoint_connection_closes(c)
  \/ \E c \in Connections : endpoint_finally(c)
  \/ \E c \in connections.open, cur \in Routes, readable \in ReadableSets :
       handle_message_connection(<<(<<1>>), (<<2>>)>>, cur, readable)
  \/ \E c \in connections.open, cur \in Routes \cup {NoRoute} :
       handle_message_route_change(cur)
  \/ execute_next_slide("none")

SpecChannel == Init /\ [][NextChannel]_vars

\* _concatenate_consecutive_user_messages on the histories of up to MaxTurns
\* turns
NextMerge ==
  \/ \E messages \in Histories : concatenate_call(messages)
  \/ concatenate_returned

SpecMerge == Init /\ [][NextMerge]_vars

\* the context assembly of the handle_text calls of one orchestrator instance
NextContext ==
  \/ \E system_prompt \in {"", "prompt"} : construct(system_prompt)
  \/ \E file \in TranscriptionFiles : transcription_file_changes(file)
  \/ \E c \in Calls : context_start(c)
  \/ \E c \in Calls, raw_conversation \in ContextHistories :
       history_read(c, raw_conversation)
  \/ \E c \in Calls : first_generate(c)
  \/ \E c \in Calls : context_returns(c)

SpecContext == Init /\ [][NextContext]_vars

\* _load_transcription_content in the handle_text calls of an instance, on
\* every file of up to MaxLines lines; the file is written between the calls
\* and until a call has loaded it
NextTranscript ==
  \/ construct("")
  \/ \E file \in AllTranscriptionFiles :
       /\ contexts[1].pc = "idle"
       /\ ~instance.transcription_loaded
       /\ transcription_file_changes(file)
  \/ context_start(1)
  \/ history_read(1, <<>>)
  \/ first_generate(1)
  \/ context_returns(1)

SpecTranscript == Init /\ [][NextTranscript]_vars

\* the invocation A with the tools acting on the store and the transport:
\* the front-end has connected with the routes "/1", "/2" and announced "/1"
\* before A begins; A has at most one round of tool calls, the other calls
\* run on another instance, and respond_text does not raise
\* the arguments of a tool call of this part: no "text", or a text
EffectParameters == {Missing} \cup {Str(text) : text \in Texts}

NextEffects ==
  \/ /\ inv.pc = "idle"
     /\ routes = <<>>
     /\ handle_message_connection(<<(<<1>>), (<<2>>)>>, <<1>>, Routes \ {<<2>>})
  \/ /\ inv.pc = "idle"
     /\ websocket = "none"
     /\ set_websocket
  \/ Tick
  \/ /\ routes # <<>>
     /\ websocket = "open"
     /\ max_thoughts <= 2
     /\ handle_text_start
  \/ other_handle_text_start("other")
  \/ context_assembled(TRUE)
  \/ \E calls \in 0..MaxToolCalls : llm_returns(calls, "", TRUE)
  \/ \E name \in EffectTools, parameters \in EffectParameters,
        alt \in Texts, raises \in BOOLEAN :
       /\ name # "hint" => parameters = Missing /\ alt = ""
       /\ tool_executes(name, parameters, alt, raises, TRUE)

SpecEffects == Init /\ [][NextEffects]_vars

\* a step in which a handle_text call begins (A or another one)
StartStep ==
  \/ inv.pc = "idle" /\ inv'.pc # "idle"
  \/ otherStarts' # otherStarts

\* ----------------------------------------------------------------- claims

\* C1: every conflict check that A performs after a later handle_text call B
\* has begun (on A's instance or on another one) reports a conflict.
C1_EveryCheckAfterLaterStartConflicts == ~hist.missedConflict

\* C2: no tool execution of A is started after a later call B has begun.
C2_NoToolStartAfterLaterStart == ~hist.staleToolStart

\* C3: once a conflict check of A has reported a conflict, A performs no
\* further model call and no further tool execution.
C3_NothingAfterReportedConflict == ~hist.actedAfterConflict

\* C4: the value A compares against in its conflict checks is the value
\* captured at A's own start; the start of another call never changes it.
C4_ComparedValueIsOwnStartValue ==
  Running => local_invocation_time = hist.token

\* C5: a conflict check of A reports a conflict only if another call has
\* begun since A started; a check during which none has begun reports none.
C5_ConflictOnlyAfterLaterStart == ~hist.loneConflict

\* C5 witness: A has made a check that reported no conflict and, after
\* another call began, a check that reported one.
C5_Witness == hist.clearSeen /\ hist.conflictSeen /\ laterStarted

\* C6: the shared generation counter never decreases.
C6_CounterNeverDecreases ==
  [][global_invocation_time' >= global_invocation_time]_vars

\* C7: every start receives a value strictly greater than the counter held
\* before it, so any two starts receive distinct, ordered values.
C7_StartsStrictlyIncrease ==
  [][StartStep => global_invocation_time' > global_invocation_time]_vars

\* C8: the loop only ever calls respond_text with the empty string; every
\* respond_text call with non-empty text comes from the say tool.
C8_LoopRespondsEmptyOnly ==
  \A n \in DOMAIN responses :
    /\ responses[n][1] = "loop" => responses[n][2] = ""
    /\ responses[n][2] # "" => responses[n][1] = "say"

\* C8 witness: the model's reply had non-empty content and requested a say
\* call; in A's latest step say passed a non-empty text to respond_text, and
\* then the loop made its own call, with the empty string.
C8_Witness ==
  /\ responses = <<(<<"say", "txt">>), (<<"loop", "">>)>>
  /\ inv.content # ""

\* C9: a handle_text call that returns has called respond_text("") exactly
\* once, as its last action.
C9_EmptyResponseExactlyOnce ==
  inv.pc = "done" => hist.emptyCalls = 1

\* C10: A performs at most max_thoughts model calls and at most
\* max_thoughts - 1 rounds of tool execution; with max_thoughts = 1 it
\* performs exactly one model call and no tool execution.
C10_ThoughtsBoundCalls ==
  /\ hist.llmCalls <= max_thoughts
  /\ hist.toolRounds <= max_thoughts - 1
  /\ max_thoughts = 1 =>
        /\ inv.pc # "tool"
        /\ inv.pc \in {"llm", "done", "raised"} => hist.llmCalls = 1

\* C10 witness: the model requested tools in every reply, A has used all its
\* max_thoughts model calls and max_thoughts - 1 tool rounds, and has returned.
C10_Witness ==
  /\ inv.pc = "done"
  /\ hist.ignoredToolCalls
  /\ hist.llmCalls = max_thoughts
  /\ hist.toolRounds = max_thoughts - 1

\* C11: the tool list is passed to a model call exactly when the call's
\* iteration number is below max_thoughts; the call of iteration max_thoughts
\* is preceded by the "Tools Unavailable" note, and no tool call of its reply
\* is executed.
C11_ToolsOnlyBelowMaxThoughts ==
  /\ inv.pc = "llm" =>
        /\ inv.functions <=> (hist.llmCalls < max_thoughts)
        /\ hist.llmCalls = max_thoughts => inv.note
  /\ inv.pc = "tool" => hist.llmCalls < max_thoughts

\* C11 witness: with max_thoughts = 2 the second model call was made without
\* the tool list and after the note, its reply requested tool calls, and A
\* returned without executing them.
C11_Witness ==
  /\ max_thoughts = 2
  /\ inv.pc = "done"
  /\ inv.note /\ ~inv.functions
  /\ hist.toolRounds = 1
  /\ hist.ignoredToolCalls

\* C12: after every tool execution of a reply, however it ended, A checks
\* for a conflict before it starts the reply's next tool call, and starts none
\* if there is one: A never starts a further tool call of a reply while a
\* conflict exists that none of its checks has reported.
C12_NoFurtherToolDuringConflict ==
  hist.conflictToolStart => hist.conflictSeen

\* C13: an execute_tool call that raises gives an error entry for that tool
\* call only: the reply's next tool call is started, or, after the last one,
\* the result turn is appended and the next model call is issued.
C13_ToolExceptionIsOneErrorEntry ==
  [][(\E name \in ToolNames, text \in Texts : tool_returns(name, text, "raise", TRUE))
       => LET entries == Append(inv.tool_results,
                                [id |-> inv.idx, field |-> "error"])
          IN IF inv.idx < inv.tool_calls
             THEN /\ inv'.pc = "tool"
                  /\ inv'.idx = inv.idx + 1
                  /\ inv'.tool_results = entries
             ELSE /\ inv'.pc = "llm"
                  /\ inv'.turn = entries
                  /\ hist'.resultTurns = hist.resultTurns + 1
                  /\ hist'.llmCalls = hist.llmCalls + 1]_vars

\* C13 witness: both tool calls of a reply raised (the second one was started
\* although a conflict existed, and respond_text was never called, which only
\* the except branch does); the result turn with two entries was appended and
\* the next model call is under way.
C13_Witness ==
  /\ inv.pc = "llm"
  /\ hist.conflictToolStart
  /\ hist.emptyCalls = 0
  /\ Len(inv.turn) = 2
  /\ hist.resultTurns = 1

\* the entries are those of the tool calls 1..Len(entries), in request order
InRequestOrder(entries) ==
  \A n \in DOMAIN entries :
    entries[n].id = n /\ entries[n].field \in {"result", "error"}

\* C14: the tool calls of a reply are executed one at a time in request
\* order, and when all are executed one result turn is appended that holds one
\* entry per requested tool call, in request order, each with the call's
\* identifier and its result or its error.
C14_OneResultTurnInRequestOrder ==
  [][/\ (inv.pc = "llm" /\ inv'.pc = "tool") =>
           inv'.idx = 1 /\ inv'.tool_results = <<>>
     /\ (inv.pc = "tool" /\ inv'.pc = "tool" /\ inv' # inv) =>
           /\ inv'.idx = inv.idx + 1
           /\ Len(inv'.tool_results) = inv.idx
           /\ InRequestOrder(inv'.tool_results)
     /\ (inv.pc = "tool" /\ inv'.pc = "llm") =>
           /\ inv.idx = inv.tool_calls
           /\ hist'.resultTurns = hist.resultTurns + 1
           /\ Len(inv'.turn) = inv.tool_calls
           /\ InRequestOrder(inv'.turn)]_vars

\* C14 witness: no other call ever began; the reply requested two tool calls,
\* the first returned a success and the second a failure, and the result turn
\* holds the two entries in that order.
C14_Witness ==
  /\ otherStarts = 0 /\ ~hist.conflictSeen
  /\ inv.pc = "llm"
  /\ inv.turn = <<[id |-> 1, field |-> "result"], [id |-> 2, field |-> "error"]>>

\* C15: when llm.generate raises, the empty response has been delivered to
\* respond_text by the time A ends.
C15_ResponseAfterModelError ==
  [][llm_raises => hist'.emptySent > 0]_vars

Min(a, b) == IF a < b THEN a ELSE b

\* C16: the Hint History that an invocation on any instance reads holds at
\* most HintCap entries, and they are the most recently added hints in the
\* order they were added.
C16_HistoryIsTheLatestHints ==
  \A i \in Instances :
    LET h == hint_usage_history(i) IN
    /\ Len(h) = Min(HintCap, hints_added)
    /\ \A k \in DOMAIN h : h[k].n = hints_added - Len(h) + k

\* C17: the hints listed by _get_hint_usage_context are the min(RecentHints, n)
\* last entries of the n-entry history it read, the most recent first; none
\* for an empty history.
C17_ContextListsRecentHintsNewestFirst ==
  hint_context.built =>
    LET n == Len(hint_context.read)
        m == Min(RecentHints, n)
    IN /\ Len(hint_context.listed) = m
       /\ \A k \in 1..m : hint_context.listed[k] = hint_context.read[n - k + 1]

\* C17 witness: a context was built from a history longer than RecentHints
\* and lists RecentHints hints of two different slides.
C17_Witness ==
  /\ hint_context.built
  /\ Len(hint_context.read) > RecentHints
  /\ Len(hint_context.listed) = RecentHints
  /\ hint_context.listed[1].slide # hint_context.listed[2].slide

\* C18: the Hint History is one sequence for the whole process: each of the
\* HintCap most recently added hints, whichever instance added it, is in the
\* history that an invocation on any instance reads.
C18_HistoryIsShared ==
  \A i \in Instances, n \in 1..hints_added :
    n > hints_added - HintCap =>
      \E k \in DOMAIN hint_usage_history(i) : hint_usage_history(i)[k].n = n

\* the routes of S next after r, and next before r, in lexicographic order
Follows(r, S) ==
  {t \in S : LexLess(r, t) /\ \A u \in S : LexLess(r, u) => (u = t \/ LexLess(t, u))}
Precedes(r, S) ==
  {t \in S : LexLess(t, r) /\ \A u \in S : LexLess(u, r) => (u = t \/ LexLess(u, t))}

GotoMessage(t) == <<[type |-> "goto", route |-> t]>>

\* C19: with a live transport and the current route in the route list,
\* next_slide sends a goto for the route that follows the current one in
\* lexicographic order and previous_slide for the one that precedes it,
\* whatever the order of the stored list (in a call during which no
\* operation of the store raised).
C19_NavigationFollowsSortedOrder ==
  (websocket = "open" /\ current_route \in Range(routes)
     /\ call.fault = "none") =>
    /\ call.tool = "next_slide" =>
          \A t \in Follows(current_route, Range(routes)) :
             call.success /\ call.sent = GotoMessage(t)
    /\ call.tool = "previous_slide" =>
          \A t \in Precedes(current_route, Range(routes)) :
             call.success /\ call.sent = GotoMessage(t)

\* C19 witness: the routes are stored as "/2", "/10", "/1", the current route
\* is "/1", and next_slide has sent a goto for "/10".
C19_Witness ==
  /\ routes = <<(<<2>>), (<<1, 0>>), (<<1>>)>>
  /\ current_route = <<1>>
  /\ call.tool = "next_slide"
  /\ call.sent = GotoMessage(<<1, 0>>)

IsLast(r, S) == r \in S /\ \A u \in S : ~LexLess(r, u)
IsFirst(r, S) == r \in S /\ \A u \in S : ~LexLess(u, r)

\* what C20 says of the latest call (during which no operation of the store
\* raised)
NoWrapAround ==
  call.fault = "none" =>
  /\ (call.tool = "next_slide" /\ IsLast(current_route, Range(routes))) =>
        /\ ~call.success
        /\ call.error = "Already at the last slide"
        /\ call.sent = <<>>
  /\ (call.tool = "previous_slide" /\ IsFirst(current_route, Range(routes))) =>
        /\ ~call.success
        /\ call.error = "Already at the first slide"
        /\ call.sent = <<>>

\* C20 as stated: at the last route of the sorted list next_slide returns the
\* "already at the last slide" failure and sends no goto, and at the first
\* route previous_slide returns the "already at the first slide" failure and
\* sends no goto.
C20_NoWrapAround == NoWrapAround

\* C20 amended: the same, when a transport handle is set (without one the
\* failure returned is "WebSocket not connected").
C20_NoWrapAroundWithHandle == websocket # "none" => NoWrapAround

\* C20 witness: with three routes and a live transport, previous_slide at the
\* first route has returned the "already at the first slide" failure.
C20_Witness ==
  /\ websocket = "open"
  /\ Len(routes) = 3
  /\ IsFirst(current_route, Range(routes))
  /\ call.tool = "previous_slide"
  /\ call.error = "Already at the first slide"

\* C21: a goto_slide call whose route is a string that is not in the
\* non-empty route list returns a failure whose message lists the routes in
\* their stored order, and sends no goto message.
C21_UnknownRouteListsStoredRoutes ==
  (/\ call.tool = "goto_slide"
   /\ call.fault = "none"
   /\ call.parameters.kind = "str"
   /\ routes # <<>>
   /\ call.parameters.value \notin Range(routes)) =>
    /\ ~call.raised
    /\ ~call.success
    /\ call.error = "Route not found"
    /\ call.listed = join(routes)
    /\ call.sent = <<>>

\* C21 witness: the routes are stored as "/2", "/1", the transport is live,
\* and goto_slide for "/10" has failed listing "/2, /1".
C21_Witness ==
  /\ routes = <<(<<2>>), (<<1>>)>>
  /\ websocket = "open"
  /\ call.tool = "goto_slide"
  /\ call.parameters = Str(<<1, 0>>)
  /\ call.listed = <<2>> \o Separator \o <<1>>

\* C22: goto_slide, say and hint return a "Missing required parameter"
\* failure when their parameter is missing and a "must be a" failure when it
\* is not a string; the call does not raise and emits no speech, hint or goto.
C22_BadParameterIsAFailure ==
  (call.tool \in {"goto_slide", "say", "hint"}
     /\ call.parameters.kind # "str") =>
    /\ ~call.raised
    /\ ~call.success
    /\ call.error = IF call.parameters.kind = "missing"
                      THEN "Missing required parameter" ELSE "must be a str"
    /\ call.sent = <<>>
    /\ call.said = <<>>

\* C22 witness: with routes and a live transport, a hint call whose text is
\* not a string has returned the type failure.
C22_Witness ==
  /\ routes # <<>>
  /\ websocket = "open"
  /\ call.tool = "hint"
  /\ call.parameters = NotAString
  /\ call.error = "must be a str"

\* C23: execute_tool never raises; when an operation of the store or of the
\* response collaborator raises, the call returns a failure with an error
\* message.
C23_ExecuteToolNeverRaises ==
  call.tool # "" =>
    /\ ~call.raised
    /\ call.fault # "none" => (~call.success /\ call.error # "")

C25_IgnoredMessageChangesNothing ==
  [][\A kind \in IgnoredKinds :
       handle_message_ignored(kind) =>
         /\ UNCHANGED <<routes, route_data, current_route>>
         /\ ~inbound'.raised
         /\ websocket' = websocket]_vars

\* C25 witness: with routes, their content, a current route and a live
\* transport, a JSON message that is not an object has been handled.
C25_Witness ==
  /\ routes # <<>>
  /\ route_data # <<>>
  /\ current_route # NoRoute
  /\ websocket = "open"
  /\ inbound.kind = "not_an_object"
  /\ ~inbound.raised

\* the conversation C26 describes for the call c
ExpectedContext(c) ==
  (IF instance.system_prompt # ""
     THEN <<System(<<instance.system_prompt>>)>> ELSE <<>>)
    \o (IF contexts[c].transcription_added
          THEN <<User(contexts[c].transcription_content)>> ELSE <<>>)
    \o <<SlideContext, ElapsedTime, HintContext>>
    \o concatenate_consecutive_user_messages(contexts[c].raw_conversation)
    \o <<Utterance>>

\* C26 as stated: the conversation passed to the first model call is the
\* system prompt (if configured), the transcription (if this invocation
\* loaded it), the slide context, the elapsed time, the hint history, the
\* merged history turns, and last the user utterance.
C26_ContextOrder ==
  \A c \in Calls :
    contexts[c].pc = "llm" => contexts[c].conversation = ExpectedContext(c)

\* C26 amended: the same when max_thoughts is more than 1; when max_thoughts
\* is 1 the first model call is the last one and the "Tools Unavailable" note
\* follows the utterance.
C26_ContextOrderThenNote ==
  \A c \in Calls :
    contexts[c].pc = "llm" =>
      contexts[c].conversation =
        IF max_thoughts > 1 THEN ExpectedContext(c)
        ELSE ExpectedContext(c) \o <<ToolsUnavailable>>

\* C26 witness: with a system prompt, max_thoughts 2 and a history, a call
\* that loaded the transcription has passed its conversation to the model.
C26_Witness ==
  \E c \in Calls :
    /\ contexts[c].pc = "llm"
    /\ instance.system_prompt = "prompt"
    /\ max_thoughts = 2
    /\ contexts[c].transcription_added
    /\ contexts[c].raw_conversation # <<>>
    /\ Len(contexts[c].conversation) = 8

\* C27: on one instance at most one invocation loads non-empty transcription
\* content and inserts it, and no later invocation reads the file again or
\* inserts transcription content, however the calls overlap.
C27_TranscriptionLoadedOnce ==
  /\ instance.inserts <= 1
  /\ ~instance.reloads
  /\ instance.inserts = 1 => instance.transcription_loaded

\* C27 witness: two overlapping calls have passed their conversations to the
\* model while the file holds records; one of them inserted the
\* transcription, the other did not.
C27_Witness ==
  \E c, d \in Calls :
    /\ contexts[c].pc = "llm" /\ contexts[c].transcription_added
    /\ contexts[d].pc = "llm" /\ ~contexts[d].transcription_added
    /\ load_transcription_content(instance.file) # <<>>

\* the number of user turns a sequence of turns begins with
UserPrefix(m) ==
  CHOOSE n \in 0..Len(m) :
    /\ \A k \in 1..n : m[k].role = "user"
    /\ n = Len(m) \/ m[n + 1].role # "user"

\* texts joined by a blank line
RECURSIVE JoinedByBlankLine(_)
JoinedByBlankLine(texts) ==
  IF Len(texts) = 0 THEN <<>>
  ELSE IF Len(texts) = 1 THEN texts[1]
  ELSE JoinedByBlankLine(SubSeq(texts, 1, Len(texts) - 1))
         \o <<"\n\n">> \o texts[Len(texts)]

\* the texts of a run of user turns; normalised: without the empty texts,
\* each text stripped of the whitespace around it
RunTexts(run, normalised) ==
  IF normalised
    THEN LET kept == SelectSeq(run, LAMBDA m : m.text # <<>>)
         IN [k \in DOMAIN kept |-> strip(kept[k].text)]
    ELSE [k \in DOMAIN run |-> run[k].text]

\* every maximal run of two or more user turns replaced by one user turn
RECURSIVE RunsReplaced(_, _)
RunsReplaced(m, normalised) ==
  IF m = <<>> THEN <<>>
  ELSE LET n == UserPrefix(m) IN
       IF n = 0 THEN <<m[1]>> \o RunsReplaced(Tail(m), normalised)
       ELSE <<IF n = 1 THEN m[1]
              ELSE User(JoinedByBlankLine(RunTexts(SubSeq(m, 1, n), normalised)))>>
              \o RunsReplaced(SubSeq(m, n + 1, Len(m)), normalised)

NonUserTurns(m) == SelectSeq(m, LAMBDA x : x.role # "user")

\* what C28 says of the latest merge, for the texts of a run taken as they
\* are or normalised
MergedAsStated(normalised) ==
  merge.called =>
    /\ \A k \in 1..(Len(merge.result) - 1) :
         ~(merge.result[k].role = "user" /\ merge.result[k + 1].role = "user")
    /\ NonUserTurns(merge.result) = NonUserTurns(merge.messages)
    /\ merge.result = RunsReplaced(merge.messages, normalised)

\* C28 as stated: merging yields no two adjacent user turns, keeps every
\* non-user turn unchanged and in order, and replaces every maximal run of
\* two or more user turns by one user turn whose text is the run's texts in
\* order joined by a blank line.
C28_RunsJoinedByBlankLine == MergedAsStated(FALSE)

\* C28 amended: the same, the text of the one user turn being the run's
\* non-empty texts, each stripped of the whitespace around it, in order
\* joined by a blank line.
C28_RunsStrippedAndJoined == MergedAsStated(TRUE)

\* C28 witness: the history "Hello", " there ", reply has been merged into
\* one user turn "Hello", blank line, "there" and the reply.
C28_Witness ==
  /\ merge.called
  /\ merge.messages = <<User(<<"Hello">>), User(<<" there ">>),
                        Message("assistant", <<"reply">>)>>
  /\ merge.result = <<User(<<"Hello", "\n\n", "there">>),
                      Message("assistant", <<"reply">>)>>

\* C29: when a route list has been applied, current_route, if set, is one of
\* routes, after any sequence of connection and route_change messages (a
\* message is handled in one step, so every state is one in which no message
\* is being processed).
C29_CurrentRouteIsARoute ==
  (routes # <<>> /\ current_route # NoRoute) =>
    current_route \in Range(routes)

IsPrefix(s, t) == Len(s) <= Len(t) /\ SubSeq(t, 1, Len(s)) = s

\* A returns because of the conflict found after a tool execution
AbortAfterTool == inv.pc = "tool" /\ inv'.pc = "done"

\* C30: when the invocation aborts on a conflict detected after a tool
\* execution, the effects of its tools stay: the messages sent so far are
\* followed by nothing but the message of the tool just executed, and the
\* hint recorded before the conflict check is the newest entry of the Hint
\* History; no step takes back a message that was sent.
C30_EffectsStayAfterAbort ==
  [][/\ IsPrefix(outbox, outbox')
     /\ AbortAfterTool =>
          /\ outbox' = outbox \o call'.sent
          /\ IF call'.tool = "hint" /\ call'.success
               THEN call'.parameters.value # "" =>
                      /\ hints_added' = hints_added + 1
                      /\ hint_usage_history("same")' # <<>>
                      /\ hint_usage_history("same")'[Len(hint_usage_history("same")')]
                           = HintEntry(hints_added', current_route)
               ELSE UNCHANGED <<class_hint_usage_history,
                                instance_hint_usage_history, hints_added>>]_vars

\* C30 witness: A has sent a goto and then a hint, recorded the hint, found
\* the conflict after the hint tool and returned.
C30_Witness ==
  /\ inv.pc = "done"
  /\ hist.conflictSeen
  /\ call.tool = "hint"
  /\ call.success
  /\ Len(outbox) = 2
  /\ outbox[1].type = "goto"
  /\ outbox[2].type = "hint"
  /\ hints_added = 1
  /\ Len(class_hint_usage_history) = 1

\* C33: when a connection message has been processed, routes is the route
\* list of the message, current_route is its current route, and route_data
\* has one entry for each route of the list, in the order of the list, whose
\* content is absent exactly when the page of the route could not be read.
C33_ConnectionMessageIsApplied ==
  inbound.kind = "connection" =>
    /\ routes = inbound.routes
    /\ current_route = inbound.currentRoute
    /\ Len(route_data) = Len(inbound.routes)
    /\ \A k \in 1..Len(inbound.routes) :
         /\ route_data[k].route = inbound.routes[k]
         /\ route_data[k].content = NoContent
              <=> inbound.routes[k] \notin inbound.readable

\* a connection message with a page that could be read and one that could not
C33_Witness ==
  /\ inbound.kind = "connection"
  /\ Len(routes) >= 2
  /\ \E k \in DOMAIN route_data : route_data[k].content = NoContent
  /\ \E k \in DOMAIN route_data : route_data[k].content # NoContent

\* C34: a route_change message with a non-empty currentRoute sets
\* current_route to it and leaves routes and route_data as they are; one whose
\* currentRoute is missing or empty leaves the whole store as it is.
C34_RouteChangeSetsCurrentRouteOnly ==
  [][inbound'.kind = "route_change" =>
       IF inbound'.currentRoute # NoRoute
         THEN /\ current_route' = inbound'.currentRoute
              /\ UNCHANGED <<routes, route_data>>
         ELSE UNCHANGED <<routes, route_data, current_route, websocket>>
    ]_vars

\* a route_change message has been handled in a store that has routes and a
\* current route
C34_Witness ==
  /\ inbound.kind = "route_change"
  /\ routes # <<>>
  /\ current_route # NoRoute
  /\ current_route \notin Range(routes)

\* the three tools that navigate
NavigationTools == {"goto_slide", "next_slide", "previous_slide"}

\* C35: when goto_slide, next_slide or previous_slide returns a failure, the
\* call has sent no goto message and routes, route_data and current_route are
\* what they were before the call.
C35_FailedNavigationHasNoEffect ==
  [][(call'.tool \in NavigationTools /\ ~call'.success /\ ~call'.raised) =>
       /\ call'.sent = <<>>
       /\ UNCHANGED <<routes, route_data, current_route>>
    ]_vars

\* goto_slide failed for want of a transport handle, with the target among
\* the routes
C35_Witness ==
  /\ call.tool = "goto_slide"
  /\ ~call.success
  /\ call.error = "WebSocket not connected"
  /\ call.parameters.value \in Range(routes)

\* C37: goto_slide, next_slide and previous_slide return a success only if
\* the call has sent a goto message on the transport.
C37_SuccessMeansGotoSent ==
  (call.tool \in NavigationTools /\ call.success) =>
    \E k \in DOMAIN call.sent : call.sent[k].type = "goto"

\* C38: a goto message sent by a tool or by the periodic navigation task
\* carries a route of the store's routes and is sent while a transport handle
\* is set.
C38_GotoCarriesAStoredRoute ==
  \A k \in DOMAIN call.sent :
    call.sent[k].type = "goto" =>
      /\ call.sent[k].route \in Range(routes)
      /\ websocket # "none"

\* the periodic navigation task has sent a goto message
C38_Witness ==
  /\ call.tool = "periodic_navigation_task"
  /\ call.sent # <<>>
  /\ call.sent[1].type = "goto"

\* C39: whenever a front-end connection is open, the handle of the store
\* refers to an open connection.
C39_HandleRefersToAnOpenConnection ==
  connections.open # {} =>
    websocket = "open" /\ connections.handle \in connections.open

\* C40: an execute_tool call and a round of the periodic task leave routes,
\* route_data and current_route as they are, and a next_slide call that
\* directly follows a next_slide call sends what that one sent.
C40_ToolsLeaveTheStoreAlone ==
  [][call'.tool # "" =>
       /\ UNCHANGED <<routes, route_data, current_route>>
       /\ (call.tool = "next_slide" /\ call'.tool = "next_slide"
             /\ call.fault = "none" /\ call'.fault = "none")
            => call'.sent = call.sent
    ]_vars

\* next_slide has sent a goto message and current_route is still the route
\* the call started from
C40_Witness ==
  /\ call.tool = "next_slide"
  /\ call.success
  /\ call.sent # <<>>
  /\ call.sent[1].route # current_route
  /\ current_route \in Range(routes)

MarkerPositions(block) ==
  SelectSeq([i \in DOMAIN block |-> i], LAMBDA i : block[i] = SpeakerSaid)
QuotedTexts(block) ==
  LET at == MarkerPositions(block) IN
  [k \in DOMAIN at |->
     IF block[at[k] + 1] = Quote THEN <<>> ELSE <<block[at[k] + 1]>>]

\* the records of a file that have a message text: one that is not empty, or
\* one that is not empty once it is stripped
RecordsWithText(file, stripped) ==
  SelectSeq(file.lines,
            LAMBDA l : /\ l.kind = "record"
                       /\ (IF stripped THEN strip(l.message_text)
                           ELSE l.message_text) # <<>>)

\* what a load of the file gave: as many quoted entries as there are records
\* with a text, in the order of the file, and no block when there is none
LoadedAsStated(file, block, stripped) ==
  LET records == RecordsWithText(file, stripped) IN
  /\ Len(QuotedTexts(block)) = Len(records)
  /\ \A k \in 1..Len(records) :
       k <= Len(QuotedTexts(block))
         => QuotedTexts(block)[k] = strip(records[k].message_text)
  /\ records = <<>> => block = <<>>
  /\ block # <<>> => block[1] = Header

\* a handle_text call loads the transcription file
Loads(c) ==
  /\ contexts[c].pc = "history"
  /\ contexts'[c].pc = "slide"
  /\ ~instance.transcription_loaded

\* C31 as stated: loading a file of valid records and malformed lines gives
\* a block with one quoted speaker entry for each valid record whose message
\* text is not empty, in file order, and a file without a valid record gives
\* no block.
C31_OneEntryPerRecordWithText ==
  [][\A c \in Calls :
       Loads(c) =>
         LoadedAsStated(instance.file, contexts'[c].transcription_content,
                        FALSE)]_vars

\* C31, amended: ... for each valid record whose message text is not empty
\* once leading and trailing whitespace is stripped, quoting the stripped
\* text.
C31_OneEntryPerRecordWithStrippedText ==
  [][\A c \in Calls :
       Loads(c) =>
         LoadedAsStated(instance.file, contexts'[c].transcription_content,
                        TRUE)]_vars

\* a file of a malformed line and a record whose text has blanks around it
\* has been loaded: the block quotes the stripped text, once
C31_Witness ==
  \E c \in Calls :
    /\ contexts[c].pc = "slide"
    /\ Len(instance.file.lines) = 2
    /\ instance.file.lines[1].kind = "malformed"
    /\ instance.file.lines[2].kind = "record"
    /\ contexts[c].transcription_content
         = load_transcription_content(instance.file)
    /\ QuotedTexts(contexts[c].transcription_content) = <<(<<"there">>)>>

====
